---- MODULE Spec2Model ----
(***************************************************************************)
(* Model of src/index.ts: the GitHubMCP agent (tool registry, the 13 tool  *)
(* handlers) and the ghFetch upstream client, together with the upstream   *)
(* repository API the handlers talk to.                                    *)
(*                                                                         *)
(* Text.  A JavaScript string is a sequence of atoms.  An atom is a TLA+   *)
(* string standing for a run of characters that the code treats as a unit  *)
(* (a template literal piece such as "Error ", a formatted number).  Data  *)
(* the code looks into (paths, file contents, shas) is written one         *)
(* character per atom; a non-ASCII character is written "U+XX".            *)
(***************************************************************************)
EXTENDS Integers, Sequences, FiniteSets, TLC

VARIABLES
    registry,   \* McpServer's registered tool names, in registration order
    repo,       \* upstream: the file at PathA on each ref
    pc,         \* per invocation: position of the handler
    op,         \* per invocation: tool name being invoked
    rawArguments, \* per invocation: the arguments as the caller sent them
    args,       \* per invocation: the validated arguments
    sha,        \* per invocation: write_file's local `sha`
    calls,      \* per invocation: upstream requests issued so far (ghFetch)
    resps,      \* per invocation: upstream responses received so far
    env         \* per invocation: the returned result envelope

vars == <<registry, repo, pc, op, rawArguments, args, sha, calls, resps, env>>

-----------------------------------------------------------------------------
(* Bounds *)

MaxInv == 2          \* invocation slots
WrapCols == 4        \* upstream wraps encoded content every WrapCols characters

Inv == 1 .. MaxInv

-----------------------------------------------------------------------------
(* Program constants *)

OWNER == <<"adamcfield">>
REPO == <<"rightcraft-io">>
API == <<"https://api.github.com">>

-----------------------------------------------------------------------------
(* Generic sequence / string helpers (JavaScript String and Array methods) *)

Min(a, b) == IF a < b THEN a ELSE b

Range(s) == {s[k] : k \in DOMAIN s}

\* String.prototype.startsWith
StartsWith(s, p) == Len(p) <= Len(s) /\ SubSeq(s, 1, Len(p)) = p

\* String.prototype.slice(0, n)
Slice0(s, n) == SubSeq(s, 1, Min(n, Len(s)))

\* String.prototype.includes
Includes(s, p) == \E k \in 0 .. Len(s) - Len(p) : SubSeq(s, k + 1, k + Len(p)) = p

RECURSIVE Join(_, _)
\* Array.prototype.join: ss is a sequence of strings
Join(ss, sep) ==
    IF ss = <<>> THEN <<>>
    ELSE IF Len(ss) = 1 THEN ss[1]
    ELSE ss[1] \o sep \o Join(Tail(ss), sep)

RECURSIVE Filter(_, _)
\* Array.prototype.filter with the predicate given as the set of kept elements
Filter(s, keep) ==
    IF s = <<>> THEN <<>>
    ELSE (IF s[1] \in keep THEN <<s[1]>> ELSE <<>>) \o Filter(Tail(s), keep)

\* template literal interpolation of a number
Num(n) == <<ToString(n)>>

-----------------------------------------------------------------------------
(* Characters, UTF-8, percent-encoding and base64 *)

\* String.prototype.charCodeAt for the characters the model uses
CharCode ==
    ("H" :> 72) @@ ("e" :> 101) @@ ("l" :> 108) @@ ("o" :> 111) @@
    ("s" :> 115) @@ ("a" :> 97) @@ ("/" :> 47) @@ ("." :> 46) @@
    (" " :> 32) @@ (":" :> 58) @@
    ("U+E9" :> 233) @@ ("U+C3" :> 195) @@ ("U+A9" :> 169)

\* String.fromCharCode
FromCharCode(n) == CHOOSE c \in DOMAIN CharCode : CharCode[c] = n

\* the UTF-8 encoding of one code point (below U+0800)
Utf8Bytes(code) ==
    IF code < 128 THEN <<code>>
    ELSE <<192 + (code \div 64), 128 + (code % 64)>>

HexDigits == <<"0", "1", "2", "3", "4", "5", "6", "7",
               "8", "9", "A", "B", "C", "D", "E", "F">>

HexVal(c) == CHOOSE k \in 0 .. 15 : HexDigits[k + 1] = c

IsHex(c) == c \in Range(HexDigits)

\* characters encodeURIComponent leaves alone: A-Z a-z 0-9 - _ . ! ~ * ' ( )
\* (and the atoms made of such characters only)
Unreserved ==
    {"H", "e", "l", "o", "s", "a", ".", "repo", "adamcfield", "rightcraft-io",
     "foo", "open", "closed", "all", "main", "dev", "50"}

RECURSIVE PercentBytes(_)
PercentBytes(bs) ==
    IF bs = <<>> THEN <<>>
    ELSE <<"%", HexDigits[(bs[1] \div 16) + 1], HexDigits[(bs[1] % 16) + 1]>>
         \o PercentBytes(Tail(bs))

RECURSIVE encodeURIComponent(_)
encodeURIComponent(s) ==
    IF s = <<>> THEN <<>>
    ELSE (IF s[1] \in Unreserved THEN <<s[1]>>
          ELSE PercentBytes(Utf8Bytes(CharCode[s[1]])))
         \o encodeURIComponent(Tail(s))

RECURSIVE unescape(_)
\* unescape: every %XX becomes the character with code XX
unescape(s) ==
    IF s = <<>> THEN <<>>
    ELSE IF s[1] = "%" /\ Len(s) >= 3 /\ IsHex(s[2]) /\ IsHex(s[3])
         THEN <<FromCharCode(16 * HexVal(s[2]) + HexVal(s[3]))>>
              \o unescape(SubSeq(s, 4, Len(s)))
         ELSE <<s[1]>> \o unescape(Tail(s))

B64Alphabet ==
    <<"A", "B", "C", "D", "E", "F", "G", "H", "I", "J", "K", "L", "M",
      "N", "O", "P", "Q", "R", "S", "T", "U", "V", "W", "X", "Y", "Z",
      "a", "b", "c", "d", "e", "f", "g", "h", "i", "j", "k", "l", "m",
      "n", "o", "p", "q", "r", "s", "t", "u", "v", "w", "x", "y", "z",
      "0", "1", "2", "3", "4", "5", "6", "7", "8", "9", "+", "/">>

B64Char(v) == B64Alphabet[v + 1]

B64Val(c) == CHOOSE v \in 0 .. 63 : B64Alphabet[v + 1] = c

RECURSIVE B64Encode(_)
\* base64 of a byte sequence, with = padding
B64Encode(bs) ==
    IF bs = <<>> THEN <<>>
    ELSE IF Len(bs) = 1 THEN
        <<B64Char(bs[1] \div 4), B64Char((bs[1] % 4) * 16), "=", "=">>
    ELSE IF Len(bs) = 2 THEN
        <<B64Char(bs[1] \div 4),
          B64Char((bs[1] % 4) * 16 + (bs[2] \div 16)),
          B64Char((bs[2] % 16) * 4), "=">>
    ELSE
        <<B64Char(bs[1] \div 4),
          B64Char((bs[1] % 4) * 16 + (bs[2] \div 16)),
          B64Char((bs[2] % 16) * 4 + (bs[3] \div 64)),
          B64Char(bs[3] % 64)>> \o B64Encode(SubSeq(bs, 4, Len(bs)))

RECURSIVE B64Decode(_)
\* the bytes of a well-formed padded base64 string
B64Decode(cs) ==
    IF Len(cs) < 4 THEN <<>>
    ELSE LET a == B64Val(cs[1])
             b == B64Val(cs[2])
         IN  IF cs[3] = "=" THEN <<a * 4 + (b \div 16)>>
             ELSE LET c == B64Val(cs[3])
                  IN  IF cs[4] = "=" THEN
                          <<a * 4 + (b \div 16), (b % 16) * 16 + (c \div 4)>>
                      ELSE
                          <<a * 4 + (b \div 16), (b % 16) * 16 + (c \div 4),
                            (c % 4) * 64 + B64Val(cs[4])>>
                          \o B64Decode(SubSeq(cs, 5, Len(cs)))

\* btoa: base64 of a binary string (every character code below 256)
btoa(s) == B64Encode([k \in 1 .. Len(s) |-> CharCode[s[k]]])

\* atob: the binary string of a base64 string
atob(s) == LET bs == B64Decode(s) IN [k \in 1 .. Len(bs) |-> FromCharCode(bs[k])]

\* String.prototype.replace(/\n/g, "")
StripNewlines(s) == Filter(s, Range(s) \ {"\n"})

RECURSIVE Utf8(_)
\* the UTF-8 bytes of a text (what git stores for it)
Utf8(s) == IF s = <<>> THEN <<>> ELSE Utf8Bytes(CharCode[s[1]]) \o Utf8(Tail(s))

-----------------------------------------------------------------------------
(* JSON values and the tools' argument schemas (zod) *)

Undefined == [t |-> "undefined"]
Str(s) == [t |-> "string", v |-> s]
Number(n, d) == [t |-> "number", num |-> n, den |-> d]   \* the number n/d, d > 0
Boolean(b) == [t |-> "boolean", b |-> b]
Array(xs) == [t |-> "array", items |-> xs]

\* property access on an arguments object: a missing key reads as undefined
Arg(a, f) == IF f \in DOMAIN a THEN a[f] ELSE Undefined

\* JavaScript truthiness of an optional string or boolean
Truthy(v) ==
    CASE v.t = "string" -> v.v # <<>>
      [] v.t = "boolean" -> v.b
      [] v.t = "number" -> v.num # 0
      [] v.t = "array" -> TRUE
      [] OTHER -> FALSE

\* `x || d` for an optional string x
StrOr(v, d) == IF Truthy(v) THEN v.v ELSE d

ZString == [type |-> "string", optional |-> FALSE]
ZBoolean == [type |-> "boolean", optional |-> FALSE]
ZPositiveInt == [type |-> "number", optional |-> FALSE, int |-> TRUE, positive |-> TRUE]
ZEnum(values) == [type |-> "enum", optional |-> FALSE, values |-> values]
ZStringArrayMin(n) == [type |-> "array", optional |-> FALSE, min |-> n]
Optional(z) == [z EXCEPT !.optional = TRUE]

\* whether zod type z accepts the JSON value v
Accepts(z, v) ==
    IF v.t = "undefined" THEN z.optional
    ELSE CASE z.type = "string" -> v.t = "string"
           [] z.type = "boolean" -> v.t = "boolean"
           [] z.type = "number" ->
                /\ v.t = "number"
                /\ z.int => v.num % v.den = 0
                /\ z.positive => v.num > 0
           [] z.type = "enum" -> v.t = "string" /\ v.v \in z.values
           [] z.type = "array" ->
                /\ v.t = "array"
                /\ \A k \in DOMAIN v.items : v.items[k].t = "string"
                /\ Len(v.items) >= z.min

EmptyObject == [f \in {} |-> Undefined]

ReadFileSchema == [path |-> ZString, branch |-> Optional(ZString)]

WriteFileSchema ==
    [path |-> ZString, content |-> ZString, message |-> ZString,
     branch |-> Optional(ZString)]

ListFilesSchema == [path |-> Optional(ZString), branch |-> Optional(ZString)]

SearchFilesSchema == [query |-> ZString]

ListBranchesSchema == EmptyObject

GetFileTreeSchema == [branch |-> Optional(ZString), path_prefix |-> Optional(ZString)]

ListPrsSchema ==
    [state |-> Optional(ZEnum({<<"open">>, <<"closed">>, <<"all">>})),
     base |-> Optional(ZString), head |-> Optional(ZString)]

GetPrSchema == [pull_number |-> ZPositiveInt]

CreatePrSchema ==
    [title |-> ZString, body |-> Optional(ZString), head |-> ZString,
     base |-> ZString, draft |-> Optional(ZBoolean)]

MergePrSchema ==
    [pull_number |-> ZPositiveInt, commit_title |-> Optional(ZString),
     commit_message |-> Optional(ZString),
     merge_method |-> Optional(ZEnum({<<"merge">>, <<"squash">>, <<"rebase">>}))]

ClosePrSchema == [pull_number |-> ZPositiveInt]

AddPrCommentSchema == [pull_number |-> ZPositiveInt, body |-> ZString]

\* request_pr_review's schema without .min(1)
RequestPrReviewSchema_NoMin ==
    [pull_number |-> ZPositiveInt, reviewers |-> ZStringArrayMin(0)]

RequestPrReviewSchema ==
    [pull_number |-> ZPositiveInt, reviewers |-> ZStringArrayMin(1)]

\* init() with the last registration missing
ToolNames_Missing ==
    <<"read_file", "write_file", "list_files", "search_files", "list_branches",
      "get_file_tree", "list_prs", "get_pr", "create_pr", "merge_pr",
      "close_pr", "add_pr_comment">>

\* the tools init() registers, in order
ToolNames ==
    <<"read_file", "write_file", "list_files", "search_files", "list_branches",
      "get_file_tree", "list_prs", "get_pr", "create_pr", "merge_pr",
      "close_pr", "add_pr_comment", "request_pr_review">>

Schema(name) ==
    CASE name = "read_file" -> ReadFileSchema
      [] name = "write_file" -> WriteFileSchema
      [] name = "list_files" -> ListFilesSchema
      [] name = "search_files" -> SearchFilesSchema
      [] name = "list_branches" -> ListBranchesSchema
      [] name = "get_file_tree" -> GetFileTreeSchema
      [] name = "list_prs" -> ListPrsSchema
      [] name = "get_pr" -> GetPrSchema
      [] name = "create_pr" -> CreatePrSchema
      [] name = "merge_pr" -> MergePrSchema
      [] name = "close_pr" -> ClosePrSchema
      [] name = "add_pr_comment" -> AddPrCommentSchema
      [] name = "request_pr_review" -> RequestPrReviewSchema

\* the fields of the schema that the raw arguments violate
Violations(name, raw) ==
    {f \in DOMAIN Schema(name) : ~Accepts(Schema(name)[f], Arg(raw, f))}

\* the parsed arguments: the schema's keys that are present
Parse(name, raw) == [f \in DOMAIN Schema(name) \cap DOMAIN raw |-> raw[f]]

-----------------------------------------------------------------------------
(* The upstream client *)

GITHUB_PAT == <<"${GITHUB_PAT}">>

DefaultHeaders(pat) ==
    ("Authorization" :> (<<"Bearer ">> \o pat)) @@
    ("Accept" :> <<"application/vnd.github+json">>) @@
    ("X-GitHub-Api-Version" :> <<"2022-11-28">>) @@
    ("User-Agent" :> <<"github-mcp-worker/1.0">>)

\* path.startsWith("http")
StartsWithHttp(path) == path # <<>> /\ path[1] = API[1]

\* the request ghFetch(path, pat, options) hands to fetch
ghFetch(path, pat, options) ==
    [url |-> IF StartsWithHttp(path) THEN path ELSE API \o path,
     method |-> IF "method" \in DOMAIN options THEN options.method ELSE "GET",
     body |-> Arg(options, "body"),
     headers |-> IF "headers" \in DOMAIN options
                 THEN options.headers @@ DefaultHeaders(pat)
                 ELSE DefaultHeaders(pat)]

\* Response.ok
Ok(res) == res.status >= 200 /\ res.status <= 299

RepoPath == <<"/repos/">> \o OWNER \o <<"/">> \o REPO

-----------------------------------------------------------------------------
(* Result envelopes *)

NoEnvelope == [content |-> <<>>]

TextBlock(text) == [type |-> "text", text |-> text]

\* { content: [{ type: "text", text }] }
Result(text) == [content |-> <<TextBlock(text)>>]

\* { content: [{ type: "text", text }], isError: true }
ErrorResult(text) == [content |-> <<TextBlock(text)>>, isError |-> TRUE]

\* UpstreamError without the error flag
UpstreamError_NoFlag(res) == Result(<<"Error ">> \o Num(res.status) \o <<": ">> \o res.text)

\* the shared `!res.ok` branch: `Error ${res.status}: ${await res.text()}`
UpstreamError(res) == ErrorResult(<<"Error ">> \o Num(res.status) \o <<": ">> \o res.text)

IsError(e) == "isError" \in DOMAIN e /\ e.isError

Text(e) == e.content[1].text

-----------------------------------------------------------------------------
(* The upstream repository API: responses are [status, text, json], where    *)
(* text is the raw body and json what Response.json() yields for it.  A JSON *)
(* object is a record, a JSON array is [array |-> <<...>>], and a body that  *)
(* is not JSON is NotJson.                                                   *)

NotJson == [invalid |-> TRUE]

IsJson(j) == "invalid" \notin DOMAIN j

\* Array.isArray
IsArray(j) == "array" \in DOMAIN j

JsonBody == <<"<json>">>

NotFound ==
    [status |-> 404, text |-> <<"{\"message\":\"Not Found\"}">>,
     json |-> [message |-> <<"Not Found">>]]

BadGateway ==
    [status |-> 502, text |-> <<"<html>502 Bad Gateway</html>">>, json |-> NotJson]

\* failures any upstream call can meet
Failures == {NotFound, BadGateway}

Success(status, json) == [status |-> status, text |-> JsonBody, json |-> json]

PathA == <<"s", "/", "a">>
Refs == {<<"main">>, <<"dev">>}
Hello == <<"H", "e", "l", "l", "o">>
Texts == {<<>>, Hello, <<"U+E9">>}

NoFile == [kind |-> "none"]
Dir == [kind |-> "dir"]
File(bytes) == [kind |-> "file", bytes |-> bytes]
Entries == {NoFile, Dir} \cup {File(Utf8(t)) : t \in Texts}

RECURSIVE HexBytes(_)
HexBytes(bs) ==
    IF bs = <<>> THEN <<>>
    ELSE <<HexDigits[(bs[1] \div 16) + 1], HexDigits[(bs[1] % 16) + 1]>>
         \o HexBytes(Tail(bs))

\* the version token of a file: a digest of its content (injective here)
BlobSha(bytes) == <<"b", "l", "o", "b">> \o HexBytes(bytes)

RECURSIVE Wrap(_)
\* the encoded content in lines of WrapCols characters, each ended by \n
Wrap(cs) ==
    IF cs = <<>> THEN <<>>
    ELSE SubSeq(cs, 1, Min(WrapCols, Len(cs))) \o <<"\n">>
         \o Wrap(SubSeq(cs, WrapCols + 1, Len(cs)))

CommitSha == <<"a", "b", "c", "1", "2", "3", "4", "5", "6">>
TreeSha == <<"7", "7", "7", "e", "e", "e", "0", "0", "0">>

\* GET /contents/{path}?ref={ref}
ContentsGet(entry) ==
    CASE entry.kind = "none" -> NotFound
      [] entry.kind = "dir" ->
            Success(200, [array |-> <<[name |-> <<"b">>, type |-> <<"file">>,
                                       path |-> PathA \o <<"/", "b">>]>>])
      [] entry.kind = "file" ->
            Success(200, [type |-> <<"file">>, encoding |-> <<"base64">>,
                          size |-> Len(entry.bytes),
                          sha |-> BlobSha(entry.bytes),
                          content |-> Wrap(B64Encode(entry.bytes))])

Conflict ==
    [status |-> 409, text |-> <<"{\"message\":\"does not match\"}">>,
     json |-> [message |-> <<"does not match">>]]

Unprocessable ==
    [status |-> 422, text |-> <<"{\"message\":\"Invalid request\"}">>,
     json |-> [message |-> <<"Invalid request">>]]

\* PUT /contents/{path}: accepted only when the token matches the file's
\* current token, or is absent and the file does not exist
PutAccepted(entry, body) ==
    \/ entry.kind = "none" /\ "sha" \notin DOMAIN body
    \/ entry.kind = "file" /\ "sha" \in DOMAIN body /\ body.sha = BlobSha(entry.bytes)

PutRejection(entry, body) ==
    IF entry.kind = "file" /\ "sha" \in DOMAIN body THEN Conflict ELSE Unprocessable

\* the commit object of a successful put, with or without its sha
PutResults == {[commit |-> [sha |-> CommitSha]], [content |-> <<"c">>]}

-----------------------------------------------------------------------------
(* The requests the handlers issue *)

Get(path) == ghFetch(path, GITHUB_PAT, EmptyObject)

\* JSON.stringify of a request body: the object, as the upstream parses it
Send(method, path, body) == ghFetch(path, GITHUB_PAT, [method |-> method, body |-> body])

\* `branch || "main"`
RefOf(a) == StrOr(Arg(a, "branch"), <<"main">>)

ContentsUrl(path, ref) ==
    RepoPath \o <<"/contents/">> \o encodeURIComponent(path) \o <<"?ref=">> \o ref

read_file_request(a) == Get(ContentsUrl(a.path.v, RefOf(a)))

write_file_existing_request(a) == Get(ContentsUrl(a.path.v, RefOf(a)))

\* write_file's body without `if (sha) body.sha = sha`
write_file_body_NoSha(a, shaLocal) ==
    [message |-> a.message.v,
     content |-> btoa(unescape(encodeURIComponent(a.content.v))),
     branch |-> RefOf(a)]

write_file_body(a, shaLocal) ==
    LET body == [message |-> a.message.v,
                 content |-> btoa(unescape(encodeURIComponent(a.content.v))),
                 branch |-> RefOf(a)]
    IN  IF Truthy(shaLocal) THEN [sha |-> shaLocal.v] @@ body ELSE body

write_file_put_request(a, shaLocal) ==
    Send("PUT", RepoPath \o <<"/contents/">> \o encodeURIComponent(a.path.v),
         write_file_body(a, shaLocal))

list_files_request(a) ==
    LET dirPath == StrOr(Arg(a, "path"), <<>>)
    IN  IF dirPath # <<>>
        THEN Get(ContentsUrl(dirPath, RefOf(a)))
        ELSE Get(RepoPath \o <<"/contents/?ref=">> \o RefOf(a))

search_files_request(a) ==
    Get(<<"/search/code?q=">>
        \o encodeURIComponent(a.query.v \o <<" ", "repo", ":">> \o OWNER \o <<"/">> \o REPO)
        \o <<"&per_page=20">>)

list_branches_request(a) == Get(RepoPath \o <<"/branches?per_page=30">>)

get_file_tree_ref_request(a) == Get(RepoPath \o <<"/git/ref/heads/">> \o RefOf(a))

\* the second hop asking for a tree instead of a commit
get_file_tree_commit_request_Tree(refData) ==
    Get(RepoPath \o <<"/git/trees/">> \o refData.object.sha \o <<"?recursive=1">>)

get_file_tree_commit_request(refData) ==
    Get(RepoPath \o <<"/git/commits/">> \o refData.object.sha)

get_file_tree_tree_request(commitData) ==
    Get(RepoPath \o <<"/git/trees/">> \o commitData.tree.sha \o <<"?recursive=1">>)

\* URLSearchParams.toString for values of unreserved characters, " " and ":"
RECURSIVE FormEncode(_)
FormEncode(s) ==
    IF s = <<>> THEN <<>>
    ELSE (IF s[1] \in Unreserved THEN <<s[1]>>
          ELSE IF s[1] = " " THEN <<"+">>
          ELSE PercentBytes(Utf8Bytes(CharCode[s[1]])))
         \o FormEncode(Tail(s))

list_prs_request(a) ==
    LET params == <<"state=">> \o FormEncode(StrOr(Arg(a, "state"), <<"open">>))
                  \o <<"&per_page=">> \o FormEncode(<<"50">>)
                  \o (IF Truthy(Arg(a, "base"))
                      THEN <<"&base=">> \o FormEncode(a.base.v) ELSE <<>>)
                  \o (IF Truthy(Arg(a, "head"))
                      THEN <<"&head=">> \o FormEncode(a.head.v) ELSE <<>>)
    IN  Get(RepoPath \o <<"/pulls?">> \o params)

get_pr_request(a) == Get(RepoPath \o <<"/pulls/">> \o Num(a.pull_number.num))

create_pr_request(a) ==
    Send("POST", RepoPath \o <<"/pulls">>,
         [title |-> a.title.v,
          body |-> StrOr(Arg(a, "body"), <<>>),
          head |-> a.head.v,
          base |-> a.base.v,
          draft |-> IF "draft" \in DOMAIN a THEN a.draft.b ELSE FALSE])

merge_pr_body(a) ==
    LET method == [merge_method |-> StrOr(Arg(a, "merge_method"), <<"merge">>)]
        title == IF Truthy(Arg(a, "commit_title"))
                 THEN [commit_title |-> a.commit_title.v] ELSE EmptyObject
        message == IF Truthy(Arg(a, "commit_message"))
                   THEN [commit_message |-> a.commit_message.v] ELSE EmptyObject
    IN  method @@ title @@ message

merge_pr_request(a) ==
    Send("PUT", RepoPath \o <<"/pulls/">> \o Num(a.pull_number.num) \o <<"/merge">>,
         merge_pr_body(a))

close_pr_request(a) ==
    Send("PATCH", RepoPath \o <<"/pulls/">> \o Num(a.pull_number.num),
         [state |-> <<"closed">>])

add_pr_comment_request(a) ==
    Send("POST", RepoPath \o <<"/issues/">> \o Num(a.pull_number.num) \o <<"/comments">>,
         [body |-> a.body.v])

request_pr_review_request(a) ==
    Send("POST",
         RepoPath \o <<"/pulls/">> \o Num(a.pull_number.num) \o <<"/requested_reviewers">>,
         [reviewers |-> [k \in DOMAIN a.reviewers.items |-> a.reviewers.items[k].v]])

\* the request a handler issues before its first await
FirstRequest(name, a) ==
    CASE name = "read_file" -> read_file_request(a)
      [] name = "write_file" -> write_file_existing_request(a)
      [] name = "list_files" -> list_files_request(a)
      [] name = "search_files" -> search_files_request(a)
      [] name = "list_branches" -> list_branches_request(a)
      [] name = "get_file_tree" -> get_file_tree_ref_request(a)
      [] name = "list_prs" -> list_prs_request(a)
      [] name = "get_pr" -> get_pr_request(a)
      [] name = "create_pr" -> create_pr_request(a)
      [] name = "merge_pr" -> merge_pr_request(a)
      [] name = "close_pr" -> close_pr_request(a)
      [] name = "add_pr_comment" -> add_pr_comment_request(a)
      [] name = "request_pr_review" -> request_pr_review_request(a)

-----------------------------------------------------------------------------
(* The handlers' code after an await: from the response to the envelope *)

read_file_result(a, res) ==
    IF ~Ok(res) THEN UpstreamError(res)
    ELSE LET data == res.json
         IN  IF \/ ~("type" \in DOMAIN data /\ data.type = <<"file">>)
                \/ ~("content" \in DOMAIN data /\ data.content # <<>>)
             THEN ErrorResult(<<"Path '">> \o a.path.v
                              \o <<"' is a directory, not a file. Use list_files instead.">>)
             ELSE Result(atob(StripNewlines(data.content)))

\* `if (existing.ok) { sha = data.sha }`
write_file_sha(existing) ==
    IF Ok(existing) /\ "sha" \in DOMAIN existing.json
    THEN Str(existing.json.sha)
    ELSE Undefined

\* write_file confirming the write without looking at res.ok
write_file_result_IgnoreStatus(a, shaLocal, res) ==
    Result(<<"File ">>
           \o (IF Truthy(shaLocal) THEN <<"updated">> ELSE <<"created">>)
           \o <<": ">> \o a.path.v \o <<" (commit: ">> \o <<"unknown">> \o <<")">>)

write_file_result(a, shaLocal, res) ==
    IF ~Ok(res) THEN UpstreamError(res)
    ELSE LET result == res.json
             commit == IF "commit" \in DOMAIN result /\ "sha" \in DOMAIN result.commit
                          /\ Slice0(result.commit.sha, 7) # <<>>
                       THEN Slice0(result.commit.sha, 7)
                       ELSE <<"unknown">>
         IN  Result(<<"File ">>
                    \o (IF Truthy(shaLocal) THEN <<"updated">> ELSE <<"created">>)
                    \o <<": ">> \o a.path.v \o <<" (commit: ">> \o commit \o <<")">>)

\* Array.prototype.map(f).join(sep), with the mapped strings given as lines
Lines(items, line(_)) == [k \in DOMAIN items |-> line(items[k])]

list_files_line(item) ==
    LET icon == IF item.type = <<"dir">> THEN <<"U+1F4C1">> ELSE <<"U+1F4C4">>
        size == IF "size" \in DOMAIN item /\ item.size # 0
                THEN <<" (">> \o Num(item.size) \o <<"B)">> ELSE <<>>
    IN  icon \o <<" ">> \o item.path \o size

list_files_result(a, res) ==
    IF ~Ok(res) THEN UpstreamError(res)
    ELSE LET items == res.json
             dirPath == StrOr(Arg(a, "path"), <<>>)
         IN  IF ~IsArray(items)
             THEN ErrorResult(<<"Path '">> \o dirPath
                              \o <<"' is a file, not a directory. Use read_file instead.">>)
             ELSE LET listing == Join(Lines(items.array, list_files_line), <<"\n">>)
                  IN  Result(IF listing # <<>> THEN listing ELSE <<"(empty directory)">>)

search_files_line(item) == <<"  ">> \o item.path

search_files_result(a, res) ==
    IF ~Ok(res) THEN UpstreamError(res)
    ELSE LET data == res.json
         IN  IF data.total_count = 0
             THEN Result(<<"No results found for: ">> \o a.query.v)
             ELSE Result(<<"Found ">> \o Num(data.total_count) \o <<" result(s):", "\n">>
                         \o Join(Lines(data.items, search_files_line), <<"\n">>))

list_branches_line(b) ==
    <<"  ">> \o b.name \o <<" (">> \o Slice0(b.commit.sha, 7) \o <<")">>

list_branches_result(a, res) ==
    IF ~Ok(res) THEN UpstreamError(res)
    ELSE Result(<<"Branches:", "\n">>
                \o Join(Lines(res.json.array, list_branches_line), <<"\n">>))

TruncatedSuffix == <<"\n\n", "(tree was truncated -- repo has many files)">>

tree_path(e) == e.path

\* get_file_tree's entries without the blob filter
get_file_tree_entries_NoBlobFilter(a, treeData) ==
    IF Truthy(Arg(a, "path_prefix"))
    THEN Filter(treeData.tree,
                {e \in Range(treeData.tree) : StartsWith(e.path, a.path_prefix.v)})
    ELSE treeData.tree

\* treeData.tree.filter(blob), then the optional path_prefix filter
get_file_tree_entries(a, treeData) ==
    LET blobs == Filter(treeData.tree,
                        {e \in Range(treeData.tree) : e.type = <<"blob">>})
    IN  IF Truthy(Arg(a, "path_prefix"))
        THEN Filter(blobs, {e \in Range(blobs) : StartsWith(e.path, a.path_prefix.v)})
        ELSE blobs

get_file_tree_result(a, treeData) ==
    LET entries == get_file_tree_entries(a, treeData)
        listing == Join(Lines(entries, tree_path), <<"\n">>)
        suffix == IF treeData.truncated THEN TruncatedSuffix ELSE <<>>
    IN  Result(Num(Len(entries)) \o <<" files">>
               \o (IF Truthy(Arg(a, "path_prefix"))
                   THEN <<" under '">> \o a.path_prefix.v \o <<"'">> ELSE <<>>)
               \o <<":", "\n">> \o listing \o suffix)

Draft(pr) == IF pr.draft THEN <<" [DRAFT]">> ELSE <<>>

list_prs_line(pr) ==
    <<"#">> \o Num(pr.number) \o Draft(pr) \o <<" [">> \o pr.state \o <<"] ">>
    \o pr.title \o <<"\n", "  ">> \o pr.head.ref \o <<" -> ">> \o pr.base.ref
    \o <<" by @">> \o pr.user.login \o <<" (">> \o Slice0(pr.created_at, 10)
    \o <<")", "\n", "  ">> \o pr.html_url

list_prs_result(a, res) ==
    IF ~Ok(res) THEN UpstreamError(res)
    ELSE LET prs == res.json.array
         IN  IF Len(prs) = 0
             THEN Result(<<"No ">> \o StrOr(Arg(a, "state"), <<"open">>)
                         \o <<" pull requests found.">>)
             ELSE Result(Join(Lines(prs, list_prs_line), <<"\n\n">>))

reviewer_name(r) == <<"@">> \o r.login

label_name(l) == l.name

\* the lines of get_pr before .filter(Boolean)
get_pr_lines(pr) ==
    << <<"PR #">> \o Num(pr.number) \o Draft(pr) \o <<": ">> \o pr.title,
       <<"State: ">> \o pr.state \o (IF pr.merged THEN <<" (merged)">> ELSE <<>>),
       <<"Author: @">> \o pr.user.login,
       <<"Branch: ">> \o pr.head.ref \o <<" -> ">> \o pr.base.ref,
       <<"Commits: ">> \o Num(pr.commits) \o <<" | +">> \o Num(pr.additions)
           \o <<" -">> \o Num(pr.deletions) \o <<" in ">> \o Num(pr.changed_files)
           \o <<" file(s)">>,
       <<"Created: ">> \o Slice0(pr.created_at, 10) \o <<" | Updated: ">>
           \o Slice0(pr.updated_at, 10),
       IF Len(pr.requested_reviewers) > 0
       THEN <<"Reviewers: ">> \o Join(Lines(pr.requested_reviewers, reviewer_name), <<", ">>)
       ELSE <<>>,
       IF Len(pr.labels) > 0
       THEN <<"Labels: ">> \o Join(Lines(pr.labels, label_name), <<", ">>)
       ELSE <<>>,
       IF Truthy(pr.body) THEN <<"\n", "Description:", "\n">> \o pr.body.v ELSE <<>>,
       <<"\n", "URL: ">> \o pr.html_url >>

\* get_pr joining its lines without .filter(Boolean)
get_pr_result_NoFilter(a, res) ==
    IF ~Ok(res) THEN UpstreamError(res)
    ELSE Result(Join(get_pr_lines(res.json), <<"\n">>))

get_pr_result(a, res) ==
    IF ~Ok(res) THEN UpstreamError(res)
    ELSE LET lines == get_pr_lines(res.json)
         IN  Result(Join(Filter(lines, Range(lines) \ {<<>>}), <<"\n">>))

error_message(e) == e.message

\* create_pr's `!res.ok` branch reads the body with res.json(), which throws
\* on a body that is not JSON
create_pr_throws(res) == ~Ok(res) /\ ~IsJson(res.json)

\* create_pr surfacing only the first structured error
create_pr_result_First(a, res) ==
    IF ~Ok(res)
    THEN LET data == res.json
             msg == IF "errors" \in DOMAIN data /\ data.errors # <<>>
                    THEN data.errors[1].message
                    ELSE data.message
         IN  ErrorResult(<<"Error ">> \o Num(res.status) \o <<": ">> \o msg)
    ELSE LET pr == res.json
         IN  Result(<<"PR #">> \o Num(pr.number) \o <<" created: ">> \o pr.title
                    \o <<"\n">> \o pr.html_url)

create_pr_result(a, res) ==
    IF ~Ok(res)
    THEN LET data == res.json
             msg == IF "errors" \in DOMAIN data
                    THEN Join(Lines(data.errors, error_message), <<"; ">>)
                    ELSE data.message
         IN  ErrorResult(<<"Error ">> \o Num(res.status) \o <<": ">> \o msg)
    ELSE LET pr == res.json
         IN  Result(<<"PR #">> \o Num(pr.number) \o <<" created: ">> \o pr.title
                    \o <<"\n">> \o pr.html_url)

\* merge_pr showing the sha at 7 characters like the other handlers
merge_pr_result_ShortSha(a, res) ==
    IF ~Ok(res) THEN UpstreamError(res)
    ELSE LET data == res.json
         IN  Result(<<"PR #">> \o Num(a.pull_number.num) \o <<" merged successfully.", "\n">>
                    \o data.message \o <<"\n", "Commit: ">> \o Slice0(data.sha, 7))

merge_pr_result(a, res) ==
    IF ~Ok(res) THEN UpstreamError(res)
    ELSE LET data == res.json
         IN  Result(<<"PR #">> \o Num(a.pull_number.num) \o <<" merged successfully.", "\n">>
                    \o data.message \o <<"\n", "Commit: ">> \o data.sha)

close_pr_result(a, res) ==
    IF ~Ok(res) THEN UpstreamError(res)
    ELSE LET pr == res.json
         IN  Result(<<"PR #">> \o Num(pr.number) \o <<" closed: ">> \o pr.title
                    \o <<"\n">> \o pr.html_url)

add_pr_comment_result(a, res) ==
    IF ~Ok(res) THEN UpstreamError(res)
    ELSE LET comment == res.json
         IN  Result(<<"Comment added to PR #">> \o Num(a.pull_number.num)
                    \o <<". Comment ID: ">> \o Num(comment.id) \o <<"\n">>
                    \o comment.html_url)

review_name(r) == <<"@">> \o r.v

request_pr_review_result(a, res) ==
    IF ~Ok(res) THEN UpstreamError(res)
    ELSE Result(<<"Review requested from: ">>
                \o Join(Lines(a.reviewers.items, review_name), <<", ">>)
                \o <<" on PR #">> \o Num(a.pull_number.num))

-----------------------------------------------------------------------------
(* What the upstream can answer to each call other than the file contents   *)

Url(u) == <<"https://github.com/">> \o OWNER \o <<"/">> \o REPO \o u

ListFilesResponses ==
    {Success(200, [array |-> <<>>]),
     Success(200, [array |-> <<[name |-> <<"s">>, type |-> <<"dir">>, size |-> 0,
                                path |-> <<"s">>],
                               [name |-> <<"a">>, type |-> <<"file">>, size |-> 5,
                                path |-> <<"a">>]>>]),
     Success(200, [name |-> <<"a">>, type |-> <<"file">>, size |-> 5, path |-> <<"a">>])}
    \cup Failures

SearchFilesResponses ==
    {Success(200, [total_count |-> 0, items |-> <<>>]),
     Success(200, [total_count |-> 2,
                   items |-> <<[name |-> <<"a">>, path |-> PathA],
                               [name |-> <<"b">>, path |-> <<"b">>]>>])}
    \cup Failures

ListBranchesResponses ==
    {Success(200, [array |-> <<[name |-> <<"main">>, commit |-> [sha |-> CommitSha]],
                               [name |-> <<"dev">>, commit |-> [sha |-> TreeSha]]>>])}
    \cup Failures

RefResponses == {Success(200, [object |-> [sha |-> CommitSha]])} \cup Failures

CommitResponses == {Success(200, [tree |-> [sha |-> TreeSha]])} \cup Failures

Blob(path) == [path |-> path, type |-> <<"blob">>, size |-> 1]
Tree(path) == [path |-> path, type |-> <<"tree">>]

SrcA == <<"s", "r", "c", "/", "a", ".", "t", "s">>
SrcDir == <<"s", "r", "c">>
DocsB == <<"d", "o", "c", "s", "/", "b", ".", "m", "d">>

Trees ==
    {<<>>,
     <<Blob(SrcA), Tree(SrcDir), Blob(DocsB)>>,
     <<Blob(DocsB), Tree(SrcDir), Blob(SrcA), Blob(SrcDir \o <<"/", "z">>)>>}

TreeResponses ==
    {Success(200, [tree |-> t, truncated |-> tr]) : t \in Trees, tr \in BOOLEAN}
    \cup Failures

Date == <<"2", "0", "2", "4", "-", "0", "1", "-", "0", "2", "T", "0", "3", "Z">>

PullSummary(n, draft) ==
    [number |-> n, title |-> <<"Fix">>, state |-> <<"open">>, draft |-> draft,
     user |-> [login |-> <<"alice">>], head |-> [ref |-> <<"dev">>],
     base |-> [ref |-> <<"main">>], created_at |-> Date,
     html_url |-> Url(<<"/pull/">> \o Num(n))]

ListPrsResponses ==
    {Success(200, [array |-> <<>>]),
     Success(200, [array |-> <<PullSummary(42, TRUE), PullSummary(7, FALSE)>>])}
    \cup Failures

Null == [t |-> "null"]

PullDetail(draft, reviewers, body) ==
    [number |-> 42, title |-> <<"Fix">>, body |-> body, state |-> <<"open">>,
     draft |-> draft, mergeable |-> TRUE, merged |-> FALSE,
     user |-> [login |-> <<"alice">>],
     head |-> [ref |-> <<"dev">>, sha |-> CommitSha], base |-> [ref |-> <<"main">>],
     created_at |-> Date, updated_at |-> Date, merged_at |-> Null,
     html_url |-> Url(<<"/pull/">> \o Num(42)),
     requested_reviewers |-> reviewers,
     labels |-> IF draft THEN <<[name |-> <<"wip">>]>> ELSE <<>>,
     commits |-> 2, additions |-> 10, deletions |-> 3, changed_files |-> 1]

ReviewerLists ==
    {<<>>, <<[login |-> <<"bob">>]>>, <<[login |-> <<"bob">>], [login |-> <<"carol">>]>>}

GetPrResponses ==
    {Success(200, PullDetail(d, r, b)) :
        d \in BOOLEAN, r \in ReviewerLists, b \in {Null, Str(<<"Why">>)}}
    \cup Failures

ValidationFailed(errors) ==
    [status |-> 422, text |-> <<"{\"message\":\"Validation Failed\",\"errors\":[">>
                              \o Join(Lines(errors, error_message), <<",">>) \o <<"]}">>,
     json |-> [message |-> <<"Validation Failed">>, errors |-> errors]]

ErrorLists ==
    {<<>>,
     <<[message |-> <<"A pull request already exists">>]>>,
     <<[message |-> <<"No commits between main and dev">>],
       [message |-> <<"head is invalid">>]>>}

CreatePrResponses ==
    {Success(201, [number |-> 43, title |-> <<"Fix">>,
                   html_url |-> Url(<<"/pull/">> \o Num(43))])}
    \cup {ValidationFailed(es) : es \in ErrorLists}
    \cup Failures

NotMergeable ==
    [status |-> 405, text |-> <<"{\"message\":\"Pull Request is not mergeable\"}">>,
     json |-> [message |-> <<"Pull Request is not mergeable">>]]

MergePrResponses ==
    {Success(200, [sha |-> CommitSha, merged |-> TRUE,
                   message |-> <<"Pull Request successfully merged">>]),
     NotMergeable}
    \cup Failures

ClosePrResponses ==
    {Success(200, [number |-> 42, title |-> <<"Fix">>,
                   html_url |-> Url(<<"/pull/">> \o Num(42))])}
    \cup Failures

AddPrCommentResponses ==
    {Success(201, [id |-> 9, html_url |-> Url(<<"/pull/42#issuecomment-9">>)])}
    \cup Failures

RequestPrReviewResponses ==
    {Success(201, [number |-> 42]), Unprocessable} \cup Failures

-----------------------------------------------------------------------------
(* The raw arguments callers send: valid ones and schema violations *)

Dev == Str(<<"dev">>)
N42 == Number(42, 1)

\* a record with the keys of r whose value is not undefined
Given(r) == [f \in {g \in DOMAIN r : r[g] # Undefined} |-> r[f]]

ReadFileArgs ==
    {Given([path |-> Str(PathA), branch |-> b]) : b \in {Undefined, Dev}}
    \cup {[branch |-> Dev], [path |-> N42]}

WriteFileArgs ==
    {Given([path |-> Str(PathA), content |-> Str(t), message |-> Str(<<"msg">>),
            branch |-> b]) : t \in Texts, b \in {Undefined, Dev}}
    \cup {[path |-> Str(PathA), message |-> Str(<<"msg">>)],
          [path |-> Str(PathA), content |-> N42, message |-> Str(<<"msg">>)]}

ListFilesArgs ==
    {Given([path |-> p, branch |-> b]) :
        p \in {Undefined, Str(<<"s">>)}, b \in {Undefined, Dev}}
    \cup {[path |-> Boolean(TRUE)]}

SearchFilesArgs == {[query |-> Str(<<"foo">>)], EmptyObject, [query |-> N42]}

ListBranchesArgs == {EmptyObject, [verbose |-> Boolean(TRUE)]}

GetFileTreeArgs ==
    {Given([branch |-> b, path_prefix |-> p]) :
        b \in {Undefined, Dev},
        p \in {Undefined, Str(<<>>), Str(<<"s", "r", "c", "/">>), Str(<<"s", "r">>)}}
    \cup {[path_prefix |-> N42]}

ListPrsArgs ==
    {Given([state |-> st, base |-> b]) :
        st \in {Undefined, Str(<<"closed">>)}, b \in {Undefined, Str(<<"main">>)}}
    \cup {[state |-> Str(<<"merged">>)], [head |-> N42]}

BadPullNumbers == {Number(0, 1), Number(0 - 1, 1), Number(3, 2), Str(<<"42">>)}

GetPrArgs ==
    {[pull_number |-> N42], EmptyObject} \cup {[pull_number |-> n] : n \in BadPullNumbers}

CreatePrArgs ==
    {Given([title |-> Str(<<"Fix">>), head |-> Dev, base |-> Str(<<"main">>),
            body |-> b, draft |-> d]) :
        b \in {Undefined, Str(<<"Why">>)}, d \in {Undefined, Boolean(TRUE)}}
    \cup {[title |-> Str(<<"Fix">>), base |-> Str(<<"main">>)],
          [title |-> Str(<<"Fix">>), head |-> Dev, base |-> Str(<<"main">>),
           draft |-> Str(<<"yes">>)]}

MergePrArgs ==
    {Given([pull_number |-> N42, commit_title |-> t, commit_message |-> m,
            merge_method |-> mm]) :
        t \in {Undefined, Str(<<>>), Str(<<"T">>)},
        m \in {Undefined, Str(<<"M">>)},
        mm \in {Undefined, Str(<<"merge">>), Str(<<"squash">>), Str(<<"rebase">>)}}
    \cup {[pull_number |-> N42, merge_method |-> Str(<<"fast-forward">>)],
          [merge_method |-> Str(<<"squash">>)]}
    \cup {[pull_number |-> n] : n \in BadPullNumbers}

ClosePrArgs == {[pull_number |-> N42]} \cup {[pull_number |-> n] : n \in BadPullNumbers}

AddPrCommentArgs ==
    {[pull_number |-> N42, body |-> Str(<<"LGTM">>)], [pull_number |-> N42],
     [pull_number |-> Number(3, 2), body |-> Str(<<"LGTM">>)]}

RequestPrReviewArgs ==
    {[pull_number |-> N42, reviewers |-> Array(r)] :
        r \in {<<>>, <<Str(<<"bob">>)>>, <<Str(<<"bob">>), Str(<<"carol">>)>>,
               <<Str(<<"bob">>), N42>>}}
    \cup {[pull_number |-> N42], [pull_number |-> N42, reviewers |-> Str(<<"bob">>)],
          [pull_number |-> Number(0, 1), reviewers |-> Array(<<Str(<<"bob">>)>>)]}

RawArgs(name) ==
    CASE name = "read_file" -> ReadFileArgs
      [] name = "write_file" -> WriteFileArgs
      [] name = "list_files" -> ListFilesArgs
      [] name = "search_files" -> SearchFilesArgs
      [] name = "list_branches" -> ListBranchesArgs
      [] name = "get_file_tree" -> GetFileTreeArgs
      [] name = "list_prs" -> ListPrsArgs
      [] name = "get_pr" -> GetPrArgs
      [] name = "create_pr" -> CreatePrArgs
      [] name = "merge_pr" -> MergePrArgs
      [] name = "close_pr" -> ClosePrArgs
      [] name = "add_pr_comment" -> AddPrCommentArgs
      [] name = "request_pr_review" -> RequestPrReviewArgs

-----------------------------------------------------------------------------
(* The state machine *)

Init ==
    /\ registry = <<>>
    /\ repo \in [Refs -> Entries]
    /\ pc = [i \in Inv |-> "idle"]
    /\ op = [i \in Inv |-> "none"]
    /\ rawArguments = [i \in Inv |-> EmptyObject]
    /\ args = [i \in Inv |-> EmptyObject]
    /\ sha = [i \in Inv |-> Undefined]
    /\ calls = [i \in Inv |-> <<>>]
    /\ resps = [i \in Inv |-> <<>>]
    /\ env = [i \in Inv |-> NoEnvelope]

\* GitHubMCP.init(): one this.server.tool(name, ...) call per tool
init ==
    /\ registry = <<>>
    /\ registry' = ToolNames
    /\ UNCHANGED <<repo, pc, op, rawArguments, args, sha, calls, resps, env>>

\* the envelope the dispatcher returns for arguments that violate the schema
ValidationError(name, raw) ==
    ErrorResult(<<"Invalid arguments for tool ", name, ": ">>
                \o <<CHOOSE f \in Violations(name, raw) : TRUE>>)

\* tools/call: look the tool up, validate the arguments against its schema,
\* and only then enter the handler, which runs up to its first await
Invoke(i, name, raw) ==
    /\ name \in Range(registry)
    /\ pc[i] = "idle"
    /\ op' = [op EXCEPT ![i] = name]
    /\ rawArguments' = [rawArguments EXCEPT ![i] = raw]
    /\ IF Violations(name, raw) # {}
       THEN /\ env' = [env EXCEPT ![i] = ValidationError(name, raw)]
            /\ pc' = [pc EXCEPT ![i] = "done"]
            /\ UNCHANGED <<args, calls>>
       ELSE /\ args' = [args EXCEPT ![i] = Parse(name, raw)]
            /\ calls' = [calls EXCEPT ![i] = <<FirstRequest(name, Parse(name, raw))>>]
            /\ pc' = [pc EXCEPT ![i] = name]
            /\ UNCHANGED env
    /\ UNCHANGED <<registry, repo, sha, resps>>

\* a caller that sends one request at a time
Call(i) ==
    /\ \A j \in Inv : pc[j] = "idle"
    /\ \E name \in Range(ToolNames) : \E raw \in RawArgs(name) : Invoke(i, name, raw)

\* the handler returns the envelope e after the response res
Return(i, res, e) ==
    /\ resps' = [resps EXCEPT ![i] = Append(@, res)]
    /\ env' = [env EXCEPT ![i] = e]
    /\ pc' = [pc EXCEPT ![i] = "done"]

\* the ref a contents request addresses
RequestRef(req) ==
    IF req.method = "PUT" THEN req.body.branch ELSE <<req.url[Len(req.url)]>>

Last(s) == s[Len(s)]

ReadFile(i) ==
    /\ pc[i] = "read_file"
    /\ \E res \in {ContentsGet(repo[RequestRef(Last(calls[i]))])} \cup Failures :
           Return(i, res, read_file_result(args[i], res))
    /\ UNCHANGED <<registry, repo, op, rawArguments, args, sha, calls>>

\* write_file keeping the token in a variable shared by all invocations: a
\* token another invocation has fetched is used instead of fetching it anew
WriteFileExisting_SharedToken(i) ==
    /\ pc[i] = "write_file"
    /\ \E existing \in {ContentsGet(repo[RequestRef(Last(calls[i]))])} \cup Failures :
           LET cached == {j \in Inv : j # i /\ Truthy(sha[j])}
               token == IF cached # {} THEN sha[CHOOSE j \in cached : TRUE]
                        ELSE write_file_sha(existing)
           IN  /\ resps' = [resps EXCEPT ![i] = Append(@, existing)]
               /\ sha' = [sha EXCEPT ![i] = token]
               /\ calls' = [calls EXCEPT ![i] =
                     Append(@, write_file_put_request(args[i], token))]
    /\ pc' = [pc EXCEPT ![i] = "write_file:put"]
    /\ UNCHANGED <<registry, repo, op, rawArguments, args, env>>

\* write_file after the existence check: keep the token, issue the put
WriteFileExisting(i) ==
    /\ pc[i] = "write_file"
    /\ \E existing \in {ContentsGet(repo[RequestRef(Last(calls[i]))])} \cup Failures :
           /\ resps' = [resps EXCEPT ![i] = Append(@, existing)]
           /\ sha' = [sha EXCEPT ![i] = write_file_sha(existing)]
           /\ calls' = [calls EXCEPT ![i] =
                 Append(@, write_file_put_request(args[i], write_file_sha(existing)))]
    /\ pc' = [pc EXCEPT ![i] = "write_file:put"]
    /\ UNCHANGED <<registry, repo, op, rawArguments, args, env>>

\* write_file after the put; the upstream applies an accepted put
WriteFilePut(i) ==
    /\ pc[i] = "write_file:put"
    /\ LET req == Last(calls[i])
           ref == RequestRef(req)
       IN  \/ /\ PutAccepted(repo[ref], req.body)
              /\ repo' = [repo EXCEPT ![ref] = File(B64Decode(req.body.content))]
              /\ \E result \in PutResults :
                    LET res == Success(IF repo[ref].kind = "none" THEN 201 ELSE 200,
                                       result)
                    IN  Return(i, res, write_file_result(args[i], sha[i], res))
           \/ /\ \E res \in (IF PutAccepted(repo[ref], req.body) THEN {}
                             ELSE {PutRejection(repo[ref], req.body)}) \cup Failures :
                    Return(i, res, write_file_result(args[i], sha[i], res))
              /\ UNCHANGED repo
    /\ UNCHANGED <<registry, op, rawArguments, args, sha, calls>>

ListFiles(i) ==
    /\ pc[i] = "list_files"
    /\ \E res \in ListFilesResponses : Return(i, res, list_files_result(args[i], res))
    /\ UNCHANGED <<registry, repo, op, rawArguments, args, sha, calls>>

SearchFiles(i) ==
    /\ pc[i] = "search_files"
    /\ \E res \in SearchFilesResponses : Return(i, res, search_files_result(args[i], res))
    /\ UNCHANGED <<registry, repo, op, rawArguments, args, sha, calls>>

ListBranches(i) ==
    /\ pc[i] = "list_branches"
    /\ \E res \in ListBranchesResponses : Return(i, res, list_branches_result(args[i], res))
    /\ UNCHANGED <<registry, repo, op, rawArguments, args, sha, calls>>

\* a hop of get_file_tree succeeded: issue the next request
NextHop(i, res, req, at) ==
    /\ resps' = [resps EXCEPT ![i] = Append(@, res)]
    /\ calls' = [calls EXCEPT ![i] = Append(@, req)]
    /\ pc' = [pc EXCEPT ![i] = at]
    /\ UNCHANGED env

\* get_file_tree after the ref lookup
GetFileTreeRef(i) ==
    /\ pc[i] = "get_file_tree"
    /\ \E refRes \in RefResponses :
           IF ~Ok(refRes) THEN Return(i, refRes, UpstreamError(refRes)) /\ UNCHANGED calls
           ELSE NextHop(i, refRes, get_file_tree_commit_request(refRes.json),
                        "get_file_tree:commit")
    /\ UNCHANGED <<registry, repo, op, rawArguments, args, sha>>

\* get_file_tree going on to the tree fetch whatever the commit lookup said
GetFileTreeCommit_NoAbort(i) ==
    /\ pc[i] = "get_file_tree:commit"
    /\ \E commitRes \in CommitResponses :
           NextHop(i, commitRes,
                   get_file_tree_tree_request([tree |-> [sha |-> TreeSha]]),
                   "get_file_tree:tree")
    /\ UNCHANGED <<registry, repo, op, rawArguments, args, sha>>

\* get_file_tree after the commit lookup
GetFileTreeCommit(i) ==
    /\ pc[i] = "get_file_tree:commit"
    /\ \E commitRes \in CommitResponses :
           IF ~Ok(commitRes)
           THEN Return(i, commitRes, UpstreamError(commitRes)) /\ UNCHANGED calls
           ELSE NextHop(i, commitRes, get_file_tree_tree_request(commitRes.json),
                        "get_file_tree:tree")
    /\ UNCHANGED <<registry, repo, op, rawArguments, args, sha>>

\* get_file_tree after the recursive tree fetch
GetFileTreeTree(i) ==
    /\ pc[i] = "get_file_tree:tree"
    /\ \E treeRes \in TreeResponses :
           Return(i, treeRes,
                  IF ~Ok(treeRes) THEN UpstreamError(treeRes)
                  ELSE get_file_tree_result(args[i], treeRes.json))
    /\ UNCHANGED <<registry, repo, op, rawArguments, args, sha, calls>>

ListPrs(i) ==
    /\ pc[i] = "list_prs"
    /\ \E res \in ListPrsResponses : Return(i, res, list_prs_result(args[i], res))
    /\ UNCHANGED <<registry, repo, op, rawArguments, args, sha, calls>>

GetPr(i) ==
    /\ pc[i] = "get_pr"
    /\ \E res \in GetPrResponses : Return(i, res, get_pr_result(args[i], res))
    /\ UNCHANGED <<registry, repo, op, rawArguments, args, sha, calls>>

CreatePr(i) ==
    /\ pc[i] = "create_pr"
    /\ \E res \in CreatePrResponses :
           IF create_pr_throws(res)
           THEN /\ resps' = [resps EXCEPT ![i] = Append(@, res)]
                /\ pc' = [pc EXCEPT ![i] = "threw"]
                /\ UNCHANGED env
           ELSE Return(i, res, create_pr_result(args[i], res))
    /\ UNCHANGED <<registry, repo, op, rawArguments, args, sha, calls>>

MergePr(i) ==
    /\ pc[i] = "merge_pr"
    /\ \E res \in MergePrResponses : Return(i, res, merge_pr_result(args[i], res))
    /\ UNCHANGED <<registry, repo, op, rawArguments, args, sha, calls>>

ClosePr(i) ==
    /\ pc[i] = "close_pr"
    /\ \E res \in ClosePrResponses : Return(i, res, close_pr_result(args[i], res))
    /\ UNCHANGED <<registry, repo, op, rawArguments, args, sha, calls>>

AddPrComment(i) ==
    /\ pc[i] = "add_pr_comment"
    /\ \E res \in AddPrCommentResponses :
           Return(i, res, add_pr_comment_result(args[i], res))
    /\ UNCHANGED <<registry, repo, op, rawArguments, args, sha, calls>>

RequestPrReview(i) ==
    /\ pc[i] = "request_pr_review"
    /\ \E res \in RequestPrReviewResponses :
           Return(i, res, request_pr_review_result(args[i], res))
    /\ UNCHANGED <<registry, repo, op, rawArguments, args, sha, calls>>

\* the invocation is over: its envelope (or failure) went to the caller and
\* nothing of it is kept
Respond(i) ==
    /\ pc[i] \in {"done", "threw"}
    /\ pc' = [pc EXCEPT ![i] = "idle"]
    /\ op' = [op EXCEPT ![i] = "none"]
    /\ rawArguments' = [rawArguments EXCEPT ![i] = EmptyObject]
    /\ args' = [args EXCEPT ![i] = EmptyObject]
    /\ sha' = [sha EXCEPT ![i] = Undefined]
    /\ calls' = [calls EXCEPT ![i] = <<>>]
    /\ resps' = [resps EXCEPT ![i] = <<>>]
    /\ env' = [env EXCEPT ![i] = NoEnvelope]
    /\ UNCHANGED <<registry, repo>>

Next ==
    \/ init
    \/ \E i \in Inv :
          \/ Call(i)
          \/ ReadFile(i)
          \/ WriteFileExisting(i)
          \/ WriteFilePut(i)
          \/ ListFiles(i)
          \/ SearchFiles(i)
          \/ ListBranches(i)
          \/ GetFileTreeRef(i)
          \/ GetFileTreeCommit(i)
          \/ GetFileTreeTree(i)
          \/ ListPrs(i)
          \/ GetPr(i)
          \/ CreatePr(i)
          \/ MergePr(i)
          \/ ClosePr(i)
          \/ AddPrComment(i)
          \/ RequestPrReview(i)
          \/ Respond(i)

Spec == Init /\ [][Next]_vars

\* Uncoordinated invocations. The operations on the File Resource (read_file,
\* write_file) may start while other invocations of them are awaiting the
\* upstream; the other operations have no upstream state in the model and
\* run one at a time, as in Next.
FileOperations == {"read_file", "write_file"}

\* a caller that does not wait for the earlier invocations to return
ConcurrentCall(i) ==
    /\ \A j \in Inv : op[j] \in FileOperations \cup {"none"}
    /\ \E name \in FileOperations : \E raw \in RawArgs(name) : Invoke(i, name, raw)

ConcurrentNext ==
    \/ Next
    \/ \E i \in Inv : ConcurrentCall(i)

ConcurrentSpec == Init /\ [][ConcurrentNext]_vars

\* the variables hold what the code's types say
TypeOK ==
    /\ registry \in {<<>>, ToolNames}
    /\ \A i \in Inv :
          /\ pc[i] \in {"idle", "done", "threw", "write_file:put",
                        "get_file_tree:commit", "get_file_tree:tree"}
                       \cup Range(ToolNames)
          /\ Len(calls[i]) <= 3
          /\ Len(env[i].content) <= 1

-----------------------------------------------------------------------------
(* Properties *)

\* the invocation has ended, with an envelope or by throwing
Ended(i) == pc[i] \in {"done", "threw"}

\* the invocation has ended and its last upstream response was a failure
EndedOnFailure(i) == Ended(i) /\ resps[i] # <<>> /\ ~Ok(Last(resps[i]))

\* `Error <status>: <body>` for the response res
ErrorText(res) == <<"Error ", ToString(res.status), ": ">> \o res.text

\* C1 (as claimed): for every operation, a non-success final response yields
\* an envelope with the error flag set whose single text block is exactly
\* `Error <status>: <body>`, the body being the raw upstream body.
C1_EveryOperationVerbatim ==
    \A i \in Inv :
        EndedOnFailure(i) =>
            /\ pc[i] = "done"
            /\ IsError(env[i])
            /\ Len(env[i].content) = 1
            /\ Text(env[i]) = ErrorText(Last(resps[i]))

\* C1 (amended): for every operation other than create_pr, a non-success
\* final response yields an envelope with the error flag set whose single
\* text block is exactly `Error <status>: <body>`, the body being the raw
\* upstream body.
C1_VerbatimExceptCreatePr ==
    \A i \in Inv :
        EndedOnFailure(i) /\ op[i] # "create_pr" =>
            /\ pc[i] = "done"
            /\ IsError(env[i])
            /\ Len(env[i].content) = 1
            /\ env[i].content[1].type = "text"
            /\ Text(env[i]) = ErrorText(Last(resps[i]))

\* write_file's put was rejected because no token was sent for an existing file
C1_Witness ==
    \E i \in Inv :
        /\ pc[i] = "done" /\ op[i] = "write_file" /\ Len(resps[i]) = 2
        /\ resps[i][2].status = 422
        /\ Text(env[i]) = <<"Error ", "422", ": ", "{\"message\":\"Invalid request\"}">>

\* the most upstream calls one invocation of the tool issues
MaxCalls(name) ==
    CASE name = "write_file" -> 2
      [] name = "get_file_tree" -> 3
      [] name = "none" -> 0
      [] OTHER -> 1

\* C2 (as claimed): at most 1 upstream call per invocation (write_file 2,
\* get_file_tree 3), and once a call returns a non-success status no further
\* call is issued and the envelope is that call's error envelope.
C2_FirstFailureEndsEveryOperation ==
    \A i \in Inv :
        /\ Len(calls[i]) <= MaxCalls(op[i])
        /\ \A k \in DOMAIN resps[i] :
              ~Ok(resps[i][k]) =>
                  /\ Len(calls[i]) = k
                  /\ pc[i] = "done"
                  /\ IsError(env[i])
                  /\ Text(env[i]) = ErrorText(resps[i][k])

\* C2 (amended): at most 1 upstream call per invocation (write_file 2,
\* get_file_tree 3); once a call other than write_file's existence check
\* returns a non-success status, no further call is issued and the invocation
\* ends with the error-flagged envelope `Error <status>: ...` of that call
\* (create_pr throws instead when the failure body is not JSON); a failed
\* existence check of write_file counts as "no token" and the put is issued.
C2_FirstFailureExceptExistenceCheck ==
    \A i \in Inv :
        /\ Len(calls[i]) <= MaxCalls(op[i])
        /\ Len(resps[i]) <= Len(calls[i])
        /\ \A k \in DOMAIN resps[i] :
              ~Ok(resps[i][k]) =>
                  IF op[i] = "write_file" /\ k = 1
                  THEN Len(calls[i]) = 2 /\ "sha" \notin DOMAIN calls[i][2].body
                  ELSE /\ Len(calls[i]) = k
                       /\ Len(resps[i]) = k
                       /\ Ended(i)
                       /\ pc[i] = "threw" =>
                             op[i] = "create_pr" /\ ~IsJson(resps[i][k].json)
                       /\ pc[i] = "done" =>
                             /\ IsError(env[i])
                             /\ SubSeq(Text(env[i]), 1, 3) =
                                    <<"Error ", ToString(resps[i][k].status), ": ">>

\* write_file found the token and then the put failed
C2_Witness ==
    \E i \in Inv :
        /\ pc[i] = "done" /\ op[i] = "write_file" /\ Len(calls[i]) = 2
        /\ Ok(resps[i][1]) /\ ~Ok(resps[i][2]) /\ IsError(env[i])

\* the fields a tool requires, and the ones it accepts besides
C3_Required(name) ==
    CASE name = "read_file" -> {"path"}
      [] name = "write_file" -> {"path", "content", "message"}
      [] name = "search_files" -> {"query"}
      [] name \in {"get_pr", "close_pr", "merge_pr"} -> {"pull_number"}
      [] name = "create_pr" -> {"title", "head", "base"}
      [] name = "add_pr_comment" -> {"pull_number", "body"}
      [] name = "request_pr_review" -> {"pull_number", "reviewers"}
      [] OTHER -> {}

C3_Optional(name) ==
    CASE name \in {"read_file", "write_file"} -> {"branch"}
      [] name = "list_files" -> {"path", "branch"}
      [] name = "get_file_tree" -> {"branch", "path_prefix"}
      [] name = "list_prs" -> {"state", "base", "head"}
      [] name = "create_pr" -> {"body", "draft"}
      [] name = "merge_pr" -> {"commit_title", "commit_message", "merge_method"}
      [] OTHER -> {}

\* the primitive type of a field
C3_Type(f) ==
    CASE f = "pull_number" -> "number"
      [] f = "draft" -> "boolean"
      [] f = "reviewers" -> "array"
      [] OTHER -> "string"

\* the arguments violate the tool's schema in one of the ways C3 lists
C3_Invalid(name, raw) ==
    LET fields == (C3_Required(name) \cup C3_Optional(name)) \cap DOMAIN raw
    IN  \/ \E f \in C3_Required(name) : f \notin DOMAIN raw
        \/ \E f \in fields : raw[f].t # C3_Type(f)
        \/ /\ "pull_number" \in fields /\ raw.pull_number.t = "number"
           /\ raw.pull_number.num <= 0 \/ raw.pull_number.num % raw.pull_number.den # 0
        \/ /\ "state" \in fields /\ raw.state.t = "string"
           /\ raw.state.v \notin {<<"open">>, <<"closed">>, <<"all">>}
        \/ /\ "merge_method" \in fields /\ raw.merge_method.t = "string"
           /\ raw.merge_method.v \notin {<<"merge">>, <<"squash">>, <<"rebase">>}
        \/ /\ "reviewers" \in fields /\ raw.reviewers.t = "array"
           /\ raw.reviewers.items = <<>>

\* C3: an invocation whose arguments violate the schema (missing required
\* field, wrong primitive type, non-positive or non-integer pull_number,
\* state or merge_method outside its enum, empty reviewers list) ends in a
\* validation-error envelope, issues no upstream call, and never enters the
\* handler.
C3_InvalidArgumentsFailClosed ==
    \A i \in Inv :
        pc[i] # "idle" /\ C3_Invalid(op[i], rawArguments[i]) =>
            /\ pc[i] = "done"
            /\ calls[i] = <<>>
            /\ resps[i] = <<>>
            /\ args[i] = EmptyObject
            /\ IsError(env[i])
            /\ Text(env[i])[1] = "Invalid arguments for tool "

\* request_pr_review with an empty reviewers list was turned away
C3_Witness ==
    \E i \in Inv :
        /\ pc[i] = "done" /\ op[i] = "request_pr_review"
        /\ "reviewers" \in DOMAIN rawArguments[i]
        /\ rawArguments[i].reviewers = Array(<<>>)
        /\ calls[i] = <<>> /\ IsError(env[i])

\* C4 (as claimed): read_file on an upstream success: a directory gives an
\* error envelope pointing to list_files; a file, whatever its content (the
\* empty one included), gives a non-error envelope whose text t is the one
\* write_file's encoding of which is the upstream content.
C4_ReadFileRoundTrip ==
    \A i \in Inv :
        pc[i] = "done" /\ op[i] = "read_file" /\ resps[i] # <<>> /\ Ok(Last(resps[i])) =>
            LET data == Last(resps[i]).json
            IN  IF IsArray(data)
                THEN /\ IsError(env[i])
                     /\ Includes(Text(env[i]),
                                 <<"' is a directory, not a file. Use list_files instead.">>)
                ELSE /\ ~IsError(env[i])
                     /\ \A t \in Texts :
                           StripNewlines(data.content)
                               = btoa(unescape(encodeURIComponent(t)))
                           => Text(env[i]) = t

\* the put body carries a token / the existence check found one
C5_Found(i) == Ok(resps[i][1]) /\ "sha" \in DOMAIN resps[i][1].json

\* C5: write_file's put body has a sha field exactly when the existence check
\* of the same invocation found a token, and then it is that token; after a
\* successful put the confirmation says "updated" if a token was found and
\* "created" otherwise.
C5_TokenDecidesCreateOrUpdate ==
    \A i \in Inv :
        op[i] = "write_file" /\ Len(calls[i]) = 2 =>
            LET body == calls[i][2].body
            IN  /\ "sha" \in DOMAIN body <=> C5_Found(i)
                /\ C5_Found(i) => body.sha = resps[i][1].json.sha
                /\ pc[i] = "done" /\ Ok(resps[i][2]) =>
                      /\ ~IsError(env[i])
                      /\ SubSeq(Text(env[i]), 1, 2) =
                             <<"File ", IF C5_Found(i) THEN "updated" ELSE "created">>

\* an existing file was updated with its token
C5_Witness ==
    \E i \in Inv :
        /\ pc[i] = "done" /\ op[i] = "write_file" /\ Len(resps[i]) = 2
        /\ C5_Found(i) /\ Ok(resps[i][2])
        /\ calls[i][2].body.sha = resps[i][1].json.sha
        /\ Text(env[i])[2] = "updated"

\* which hop of get_file_tree a request is
C6_Hop(req) ==
    CASE Includes(req.url, <<"/git/ref/heads/">>) -> 1
      [] Includes(req.url, <<"/git/commits/">>) -> 2
      [] Includes(req.url, <<"/git/trees/">>) -> 3
      [] OTHER -> 0

\* the paths of all tree entries the upstream can return
C6_TreePaths == UNION {{e.path : e \in Range(t)} : t \in Trees}

\* C6: get_file_tree issues its hops in the order ref, commit, tree, each
\* only after the previous hop succeeded; if hop k fails no later hop is
\* issued, the envelope is hop k's `Error <status>: <body>` with the error
\* flag set, and no tree entry appears in the output.
C6_HopsInOrderAbortOnFailure ==
    \A i \in Inv :
        op[i] = "get_file_tree" =>
            /\ \A k \in DOMAIN calls[i] :
                  /\ C6_Hop(calls[i][k]) = k
                  /\ calls[i][k].method = "GET"
                  /\ k > 1 => Len(resps[i]) >= k - 1 /\ Ok(resps[i][k - 1])
            /\ \A k \in DOMAIN resps[i] :
                  ~Ok(resps[i][k]) =>
                      /\ Len(calls[i]) = k
                      /\ pc[i] = "done"
                      /\ IsError(env[i])
                      /\ Text(env[i]) = ErrorText(resps[i][k])
                      /\ \A path \in C6_TreePaths : ~Includes(Text(env[i]), path)

\* the commit lookup failed after the ref lookup succeeded
C6_Witness ==
    \E i \in Inv :
        /\ pc[i] = "done" /\ op[i] = "get_file_tree"
        /\ Len(resps[i]) = 2 /\ Ok(resps[i][1]) /\ ~Ok(resps[i][2])
        /\ Len(calls[i]) = 2 /\ IsError(env[i])

\* get_file_tree came back from three successful hops
C7_Listed(i) ==
    /\ pc[i] = "done" /\ op[i] = "get_file_tree"
    /\ Len(resps[i]) = 3 /\ Ok(resps[i][3])

\* the part of get_file_tree's text after the header line, without the warning
C7_Listing(text) ==
    LET colon == CHOOSE k \in 1 .. Len(text) :
                     /\ text[k] = ":" /\ text[k + 1] = "\n"
                     /\ \A j \in 1 .. k - 1 : text[j] # ":"
        rest == SubSeq(text, colon + 2, Len(text))
    IN  IF Len(rest) >= 2 /\ rest[Len(rest) - 1] = "\n\n"
        THEN SubSeq(rest, 1, Len(rest) - 2)
        ELSE rest

\* C7: after three successful hops the listed paths are exactly the upstream
\* entries of kind blob, in upstream order, restricted to those starting with
\* the path prefix when one is given; the reported count is the number of
\* listed paths; the truncation warning is in the text exactly when the
\* upstream flagged the tree as truncated.
C7_BlobsUnderPrefixInOrder ==
    \A i \in Inv :
        C7_Listed(i) =>
            LET treeData == resps[i][3].json
                Listed(e) ==
                    /\ e.type = <<"blob">>
                    /\ "path_prefix" \in DOMAIN args[i] =>
                           StartsWith(e.path, args[i].path_prefix.v)
                expected == SelectSeq(treeData.tree, Listed)
                paths == [k \in DOMAIN expected |-> expected[k].path]
                text == Text(env[i])
            IN  /\ ~IsError(env[i])
                /\ C7_Listing(text) = Join(paths, <<"\n">>)
                /\ text[1] = ToString(Len(paths))
                /\ Includes(text, <<"(tree was truncated -- repo has many files)">>)
                       <=> treeData.truncated

\* scenario C: of src/a.ts (blob), src (tree), docs/b.md (blob), the prefix
\* src/ lists src/a.ts alone
C7_Witness ==
    \E i \in Inv :
        /\ C7_Listed(i)
        /\ args[i] = [path_prefix |-> Str(<<"s", "r", "c", "/">>)]
        /\ resps[i][3].json.tree = <<Blob(SrcA), Tree(SrcDir), Blob(DocsB)>>
        /\ ~resps[i][3].json.truncated
        /\ Text(env[i]) = <<"1", " files", " under '", "s", "r", "c", "/", "'", ":", "\n">>
                          \o SrcA

\* the response carries structured errors / only the generic message
C8_Structured(data) == "errors" \in DOMAIN data /\ data.errors # <<>>

\* C8 (as claimed): create_pr on a non-success response: the envelope has the
\* error flag set and the text `Error <status>: <message>`, the message being
\* the first structured error's message if the response carries structured
\* errors, else the generic message.  (Stated for JSON bodies that carry at
\* least one structured error or no errors field at all.)
C8_FirstStructuredError ==
    \A i \in Inv :
        /\ EndedOnFailure(i) /\ op[i] = "create_pr"
        /\ IsJson(Last(resps[i]).json)
        /\ C8_Structured(Last(resps[i]).json) \/ "errors" \notin DOMAIN Last(resps[i]).json
        => LET res == Last(resps[i])
           IN  /\ pc[i] = "done"
               /\ IsError(env[i])
               /\ Text(env[i]) =
                      <<"Error ", ToString(res.status), ": ">>
                      \o (IF C8_Structured(res.json)
                          THEN res.json.errors[1].message
                          ELSE res.json.message)

\* C8 (amended): create_pr on a non-success response whose body is JSON: the
\* envelope has the error flag set and the text `Error <status>: <message>`,
\* the message being the messages of all structured errors joined by "; " if
\* the response carries a list of structured errors (empty for an empty
\* list), else the generic message; on a body that is not JSON the handler
\* throws and returns no envelope.
C8_AllStructuredErrorsJoined ==
    \A i \in Inv :
        EndedOnFailure(i) /\ op[i] = "create_pr" =>
            LET res == Last(resps[i])
                data == res.json
                Message(k) == data.errors[k].message
                joined[k \in 0 .. 3] ==
                    IF k = 0 THEN <<>>
                    ELSE IF k = 1 THEN Message(1)
                    ELSE joined[k - 1] \o <<"; ">> \o Message(k)
            IN  IF ~IsJson(data)
                THEN pc[i] = "threw" /\ env[i] = NoEnvelope
                ELSE /\ pc[i] = "done"
                     /\ IsError(env[i])
                     /\ Len(env[i].content) = 1
                     /\ Text(env[i]) =
                            <<"Error ", ToString(res.status), ": ">>
                            \o (IF "errors" \in DOMAIN data
                                THEN joined[Len(data.errors)]
                                ELSE data.message)

\* the upstream sent two structured errors and both are in the text
C8_Witness ==
    \E i \in Inv :
        /\ pc[i] = "done" /\ op[i] = "create_pr" /\ resps[i] # <<>>
        /\ Last(resps[i]).status = 422
        /\ Len(Last(resps[i]).json.errors) = 2
        /\ Text(env[i]) = <<"Error ", "422", ": ", "No commits between main and dev",
                            "; ", "head is invalid">>

\* the tool names the specification lists
C9_Names ==
    {"read_file", "write_file", "list_files", "search_files", "list_branches",
     "get_file_tree", "list_prs", "get_pr", "create_pr", "merge_pr", "close_pr",
     "add_pr_comment", "request_pr_review"}

\* C9 (as claimed): after startup registration the registry holds exactly 14
\* operations with pairwise distinct names.
C9_FourteenOperations ==
    registry # <<>> =>
        /\ Len(registry) = 14
        /\ Cardinality(Range(registry)) = Len(registry)

\* C9 (amended): after startup registration the registry holds exactly 13
\* operations (the 13 names the specification lists), their names are
\* pairwise distinct, and the registry never changes afterwards.
C9_ThirteenOperationsForever ==
    [][/\ registry' # <<>> =>
              /\ Len(registry') = 13
              /\ Cardinality(Range(registry')) = 13
              /\ Range(registry') = C9_Names
       /\ registry # <<>> => registry' = registry]_vars

\* an invocation has run to its end against the registry of 13
C9_Witness ==
    \E i \in Inv : pc[i] = "done" /\ calls[i] # <<>> /\ Len(registry) = 13

\* C10: merge_pr issues a PUT whose body's merge_method is the caller's value
\* when given and "merge" when omitted, with commit_title / commit_message
\* only when the caller supplied them; on upstream success the envelope is
\* non-error and its text contains "PR #<pull_number> merged successfully."
\* and the whole upstream sha.
C10_MergeRequestAndConfirmation ==
    \A i \in Inv :
        op[i] = "merge_pr" /\ calls[i] # <<>> =>
            LET raw == rawArguments[i]
                req == calls[i][1]
            IN  /\ Len(calls[i]) = 1
                /\ req.method = "PUT"
                /\ req.url[Len(req.url)] = "/merge"
                /\ req.body.merge_method =
                       IF "merge_method" \in DOMAIN raw THEN raw.merge_method.v
                       ELSE <<"merge">>
                /\ \A f \in {"commit_title", "commit_message"} :
                       f \in DOMAIN req.body =>
                           f \in DOMAIN raw /\ req.body[f] = raw[f].v
                /\ DOMAIN req.body \subseteq
                       {"merge_method", "commit_title", "commit_message"}
                /\ pc[i] = "done" /\ Ok(Last(resps[i])) =>
                       /\ ~IsError(env[i])
                       /\ Includes(Text(env[i]),
                                   <<"PR #", ToString(raw.pull_number.num),
                                     " merged successfully.">>)
                       /\ Len(Last(resps[i]).json.sha) > 7
                       /\ Includes(Text(env[i]), Last(resps[i]).json.sha)

\* scenario B: merge_pr(42) with merge_method omitted was merged
C10_Witness ==
    \E i \in Inv :
        /\ pc[i] = "done" /\ op[i] = "merge_pr"
        /\ rawArguments[i] = [pull_number |-> N42]
        /\ calls[i][1].body = [merge_method |-> <<"merge">>]
        /\ Ok(Last(resps[i]))
        /\ Text(env[i]) = <<"PR #", "42", " merged successfully.", "\n",
                            "Pull Request successfully merged", "\n", "Commit: ">>
                          \o CommitSha

RECURSIVE Split(_, _)
\* String.prototype.split(sep) for a separator that is one atom of the text
Split(s, sep) ==
    IF sep \notin Range(s) THEN <<s>>
    ELSE LET k == CHOOSE n \in DOMAIN s :
                      s[n] = sep /\ \A m \in 1 .. n - 1 : s[m] # sep
         IN  <<SubSeq(s, 1, k - 1)>> \o Split(SubSeq(s, k + 1, Len(s)), sep)

\* the [DRAFT] marker
C11_Marker == <<" [DRAFT]">>

\* the indexes of the lines of out that are reviewers lines
C11_ReviewersLines(out) == {k \in DOMAIN out : StartsWith(out[k], <<"Reviewers: ">>)}

\* the number of lines get_pr prints for pr: six fixed lines, the reviewers
\* and labels lines when there are any, blank + heading + body when there is
\* a (one-line) body, blank + URL
C11_LineCount(pr) ==
    6 + (IF Len(pr.requested_reviewers) > 0 THEN 1 ELSE 0)
      + (IF Len(pr.labels) > 0 THEN 1 ELSE 0)
      + (IF Truthy(pr.body) THEN 3 ELSE 0)
      + 2

\* C11: in list_prs and get_pr a pull request's heading carries the [DRAFT]
\* marker, right after its number, if and only if upstream flags it draft,
\* and no other line carries it; in get_pr a pull request without requested
\* reviewers prints no reviewers line and no empty line instead (the only
\* empty lines are the ones before Description: and URL:), and one with
\* reviewers prints exactly one reviewers line, the seventh, naming all.
C11_DraftMarkerAndReviewersLine ==
    \A i \in Inv :
        pc[i] = "done" /\ resps[i] # <<>> /\ Ok(Last(resps[i])) =>
            LET out == Split(Text(env[i]), "\n")
                data == Last(resps[i]).json
            IN  /\ op[i] = "list_prs" /\ Len(data.array) > 0 =>
                      LET entries == Split(Text(env[i]), "\n\n")
                      IN  /\ Len(entries) = Len(data.array)
                          /\ \A k \in DOMAIN data.array :
                                LET pr == data.array[k]
                                    head == <<"#">> \o Num(pr.number)
                                IN  /\ StartsWith(entries[k], head)
                                    /\ StartsWith(entries[k], head \o C11_Marker)
                                           <=> pr.draft
                                    /\ Includes(entries[k], C11_Marker) <=> pr.draft
                /\ op[i] = "get_pr" =>
                      LET pr == data
                          head == <<"PR #">> \o Num(pr.number)
                          rl == C11_ReviewersLines(out)
                      IN  /\ StartsWith(out[1], head)
                          /\ StartsWith(out[1], head \o C11_Marker) <=> pr.draft
                          /\ (\E l \in DOMAIN out : Includes(out[l], C11_Marker))
                             <=> pr.draft
                          /\ Len(out) = C11_LineCount(pr)
                          /\ \A l \in DOMAIN out :
                                out[l] = <<>> =>
                                    /\ l < Len(out)
                                    /\ \/ out[l + 1] = <<"Description:">>
                                       \/ StartsWith(out[l + 1], <<"URL: ">>)
                          /\ Len(pr.requested_reviewers) = 0 => rl = {}
                          /\ Len(pr.requested_reviewers) > 0 =>
                                /\ rl = {7}
                                /\ \A r \in Range(pr.requested_reviewers) :
                                      Includes(out[7], <<"@">> \o r.login)
                                /\ Len(out[7]) = 3 * Len(pr.requested_reviewers)

\* get_pr printed a pull request that is not a draft and has no reviewers,
\* no labels and no body: the line after Created: is the blank before URL:
C11_Witness ==
    \E i \in Inv :
        /\ pc[i] = "done" /\ op[i] = "get_pr" /\ resps[i] # <<>>
        /\ Ok(Last(resps[i]))
        /\ ~Last(resps[i]).json.draft
        /\ Len(Last(resps[i]).json.requested_reviewers) = 0
        /\ ~Truthy(Last(resps[i]).json.body)
        /\ LET out == Split(Text(env[i]), "\n")
           IN  /\ Len(out) = 8
               /\ StartsWith(out[6], <<"Created: ">>)
               /\ out[7] = <<>>
               /\ StartsWith(out[8], <<"URL: ">>)

\* invocation i is a write_file whose put is in flight
C12_InFlight(i) == op[i] = "write_file" /\ pc[i] = "write_file:put"

\* invocations i and j, both past their existence checks, address the same
\* path and branch and obtained the same token state (the same token, or none)
C12_SameTokenState(i, j) ==
    /\ i # j
    /\ calls[i][2].url = calls[j][2].url
    /\ RequestRef(calls[i][2]) = RequestRef(calls[j][2])
    /\ sha[i] = sha[j]

\* what every answered put does: success is reported only for a put the
\* upstream accepted, and then the file holds the caller's content; any other
\* answer leaves the file alone and comes back as `Error <status>: <body>`
\* with the error flag set
C12_PutOutcome(i) ==
    LET res == Last(resps'[i])
        req == Last(calls[i])
        ref == RequestRef(req)
    IN  /\ Ok(res) =>
              /\ PutAccepted(repo[ref], req.body)
              /\ ~IsError(env'[i])
              /\ repo'[ref] = File(Utf8(args[i].content.v))
        /\ ~Ok(res) =>
              /\ repo' = repo
              /\ IsError(env'[i])
              /\ Text(env'[i]) = ErrorText(res)
        /\ ~PutAccepted(repo[ref], req.body) => res.status \in {409, 422, 404, 502}

\* C12 (as claimed): whenever the put of one write_file invocation is
\* accepted while another invocation with the same token state on the same
\* path and branch has its put in flight, the upstream's token rule rejects
\* the other put (exactly one of the two succeeds); and every answered put is
\* reported as the upstream answered it.
C12_ExactlyOnePutSucceeds ==
    [][\A i \in Inv :
          C12_InFlight(i) /\ pc'[i] = "done" =>
              /\ C12_PutOutcome(i)
              /\ \A j \in Inv :
                    /\ C12_InFlight(j)
                    /\ C12_SameTokenState(i, j)
                    /\ Ok(Last(resps'[i]))
                    => ~PutAccepted(repo'[RequestRef(calls[j][2])], calls[j][2].body)]_vars

\* C12 (amended): as above, for an accepted put that changes the file's
\* version token (it creates the file or changes its content): the other
\* put, carrying the token state from before, is then rejected by the
\* upstream's token rule.
C12_StalePutRejected ==
    [][\A i \in Inv :
          C12_InFlight(i) /\ pc'[i] = "done" =>
              /\ C12_PutOutcome(i)
              /\ \A j \in Inv :
                    /\ C12_InFlight(j)
                    /\ C12_SameTokenState(i, j)
                    /\ Ok(Last(resps'[i]))
                    /\ repo'[RequestRef(calls[i][2])] # repo[RequestRef(calls[i][2])]
                    => ~PutAccepted(repo'[RequestRef(calls[j][2])], calls[j][2].body)]_vars

\* two write_file invocations found the same token for the same file; the
\* put of one was accepted and the other came back as Error 409
C12_Witness ==
    \E i, j \in Inv :
        /\ op[i] = "write_file" /\ pc[i] = "done" /\ Len(resps[i]) = 2
        /\ op[j] = "write_file" /\ pc[j] = "done" /\ Len(resps[j]) = 2
        /\ C12_SameTokenState(i, j)
        /\ Truthy(sha[i])
        /\ Ok(resps[i][2]) /\ ~IsError(env[i])
        /\ resps[j][2] = Conflict
        /\ IsError(env[j])
        /\ Text(env[j]) = ErrorText(Conflict)
        /\ repo[RequestRef(calls[i][2])] = File(Utf8(args[i].content.v))

\* the state of invocation i
C13_Local(i) ==
    <<pc[i], op[i], rawArguments[i], args[i], sha[i], calls[i], resps[i], env[i]>>

\* the state of an invocation slot nothing is running in
C13_Nothing == <<"idle", "none", EmptyObject, EmptyObject, Undefined, <<>>, <<>>, NoEnvelope>>

\* C13: in every step of every interleaving, (1) when write_file issues its
\* put, the invocation has made exactly one call before, the existence
\* check, and has its answer; the put carries a token only if that answer
\* was a success, and then the token of that answer, whatever tokens the
\* other invocations hold; (2) a step of a handler changes the state of its
\* own invocation only: not the registry, not any other invocation; (3) once
\* the invocation is over nothing of it is left.
C13_OwnTokenAndNoSharedState ==
    [][\A i \in Inv :
          /\ pc[i] = "write_file" /\ pc'[i] = "write_file:put" =>
                LET existing == Last(resps'[i])
                    put == Last(calls'[i])
                IN  /\ Len(calls[i]) = 1 /\ calls[i][1].method = "GET"
                    /\ resps[i] = <<>> /\ Len(resps'[i]) = 1
                    /\ Len(calls'[i]) = 2 /\ put.method = "PUT"
                    /\ existing \in {ContentsGet(repo[RequestRef(calls[i][1])])}
                                        \cup Failures
                    /\ "sha" \in DOMAIN put.body =>
                          /\ Ok(existing)
                          /\ "sha" \in DOMAIN existing.json
                          /\ put.body.sha = existing.json.sha
                    /\ "sha" \notin DOMAIN put.body =>
                          ~Ok(existing) \/ "sha" \notin DOMAIN existing.json
          /\ pc[i] = "write_file:put" =>
                /\ Len(calls[i]) = 2 /\ Len(resps[i]) = 1
                /\ calls'[i] = calls[i] \/ pc'[i] = "idle"
          /\ C13_Local(i)' # C13_Local(i) =>
                /\ registry' = registry
                /\ \A j \in Inv \ {i} : C13_Local(j)' = C13_Local(j)
          /\ pc'[i] = "idle" => C13_Local(i)' = C13_Nothing]_vars

\* two write_file invocations on the same path and branch have their puts in
\* flight, each with the token of its own existence check, and the two tokens
\* differ (the file was rewritten between the two checks)
C13_Witness ==
    \E i, j \in Inv :
        /\ C12_InFlight(i) /\ C12_InFlight(j)
        /\ RequestRef(calls[i][2]) = RequestRef(calls[j][2])
        /\ Truthy(sha[i]) /\ Truthy(sha[j]) /\ sha[i] # sha[j]
        /\ calls[i][2].body.sha = resps[i][1].json.sha
        /\ calls[j][2].body.sha = resps[j][1].json.sha

=============================================================================
